---- MODULE Spec2Model ----
(***************************************************************************)
(* The rendezvous behaviour of protocols/rendezvous/src/behaviour.rs.      *)
(*                                                                         *)
(* Every peer of Nodes runs one Rendezvous value (its queue `events` and   *)
(* its map `registrations`).  The host of a node calls register,           *)
(* unregister and discover, drains the queue with poll, and feeds the      *)
(* behaviour with inject_event, inject_connected and inject_disconnected.  *)
(* The handler and the transport between two peers are one ordered         *)
(* channel per direction.  As in tests/rendezvous.rs, the peers of Clients *)
(* (a registration swarm and a discovery swarm) are connected to the       *)
(* rendezvous swarm B and make the calls.  The peer Foreign runs another   *)
(* implementation of the protocol: it sends the failure messages that      *)
(* this behaviour itself never sends.                                      *)
(***************************************************************************)
EXTENDS Integers, Sequences, FiniteSets, TLC

\* ------------------------------------------------------------------ bounds
\* inputs of the hosts, the network and the clock: calls, foreign messages,
\* connection changes, advances of time
MaxInputs == 3
\* seconds a registration is followed for
MaxAge == 3
\* versions of its record a peer signs
MaxSeq == 2

\* codec: the ttl a registration gets when the request carries none
\* (scaled down so that the clock of the model can pass it)
DEFAULT_TTL == 2

\* --------------------------------------------------------------- universes
Nodes == {"A", "B", "C"}
Clients == {"A", "C"}
Foreign == "X"
Peers == Nodes \cup {Foreign}
RendezvousPoints == {"B"}
Namespaces == {"", "chat"}
ErrorCodes == {"Unavailable"}

\* Option<T>: None is the empty tuple, Some(v) the tuple of v
None == <<>>
Some(v) == <<v>>
IsSome(o) == Len(o) = 1
Unwrap(o) == o[1]
UnwrapOr(o, d) == IF IsSome(o) THEN o[1] ELSE d

\* the AuthenticatedPeerRecord a peer signs: its identity and a sequence number
PeerRecord(p, s) == [peer |-> p, seq |-> s]
RecordsOf(p) == {PeerRecord(p, s) : s \in 1..MaxSeq}

VARIABLES
    events,         \* Rendezvous.events of each node
    registrations,  \* Rendezvous.registrations of each node
    chan,           \* handler + transport: messages in flight, chan[from][to]
    connected,      \* the connections between the swarms, as unordered pairs
    pending,        \* observer: the register/discover calls of n toward p for which
                    \* n has emitted no result event yet, oldest first
    age,            \* observer: seconds since n last accepted a registration of
                    \* (ns, peer), -1 when it never did
    inputs          \* number of inputs given so far

vars == <<events, registrations, chan, connected, pending, age, inputs>>

\* ------------------------------------------------- codec / handler values
\* handler::Input, as behaviour.rs constructs it
InputRegisterRequest(ns, ttl, record) ==
    [type |-> "RegisterRequest", namespace |-> ns, ttl |-> ttl, record |-> record]
InputUnregisterRequest(ns) == [type |-> "UnregisterRequest", namespace |-> ns]
InputDiscoverRequest(ns) == [type |-> "DiscoverRequest", namespace |-> ns]
InputRegisterResponse(ttl, message) ==
    [type |-> "RegisterResponse", ttl |-> ttl, message |-> message]
InputDiscoverResponse(regs) == [type |-> "DiscoverResponse", registrations |-> regs]

\* codec::Message, as behaviour.rs matches on it
MsgRegister(ns, ttl, record) ==
    [type |-> "Register", namespace |-> ns, ttl |-> ttl, record |-> record]
MsgSuccessfullyRegistered(ttl) == [type |-> "SuccessfullyRegistered", ttl |-> ttl]
MsgFailedToRegister(error) == [type |-> "FailedToRegister", error |-> error]
MsgUnregister(ns) == [type |-> "Unregister", namespace |-> ns]
MsgDiscover(ns) == [type |-> "Discover", namespace |-> ns]
MsgDiscoverResponse(regs) == [type |-> "DiscoverResponse", registrations |-> regs]
MsgFailedToDiscover(error) == [type |-> "FailedToDiscover", error |-> error]

\* the handler writes each Input to the substream as the Message of its kind
ToMessage(input) ==
    CASE input.type = "RegisterRequest" ->
            MsgRegister(input.namespace, input.ttl, input.record)
      [] input.type = "UnregisterRequest" -> MsgUnregister(input.namespace)
      [] input.type = "DiscoverRequest" -> MsgDiscover(input.namespace)
      [] input.type = "RegisterResponse" -> input.message
      [] input.type = "DiscoverResponse" -> MsgDiscoverResponse(input.registrations)

\* NewRegistration::effective_ttl
effective_ttl(new_reggo) == UnwrapOr(new_reggo.ttl, DEFAULT_TTL)

\* codec::Registration stored for a NewRegistration
Registration(new_reggo) ==
    [namespace |-> new_reggo.namespace,
     record |-> new_reggo.record,
     ttl |-> effective_ttl(new_reggo)]

\* NetworkBehaviourAction
NotifyHandler(peer_id, event) ==
    [action |-> "NotifyHandler", peer_id |-> peer_id, event |-> event]
GenerateEvent(event) == [action |-> "GenerateEvent", event |-> event]

\* behaviour::Event
Discovered(node, regs) ==
    [type |-> "Discovered", rendezvous_node |-> node, ns |-> regs]
FailedToDiscover(node, err) ==
    [type |-> "FailedToDiscover", rendezvous_node |-> node, err_code |-> err]
RegisteredWithRendezvousNode(node, ns, ttl) ==
    [type |-> "RegisteredWithRendezvousNode", rendezvous_node |-> node,
     ns |-> ns, ttl |-> ttl]
FailedToRegisterWithRendezvousNode(node, ns, err) ==
    [type |-> "FailedToRegisterWithRendezvousNode", rendezvous_node |-> node,
     ns |-> ns, err_code |-> err]
DeclinedRegisterRequest(peer, ns) ==
    [type |-> "DeclinedRegisterRequest", peer |-> peer, ns |-> ns]
PeerRegistered(peer, ns) == [type |-> "PeerRegistered", peer_id |-> peer, ns |-> ns]
PeerUnregistered(peer, ns) == [type |-> "PeerUnregistered", peer_id |-> peer, ns |-> ns]

\* ------------------------------------------- HashMap<String, HashSet<..>>
\* HashSet<Registration> is looked up by PeerId (contains(&peer_id),
\* remove(&peer_id)): a Registration is hashed and compared by its peer.
HashSetContains(set, peer_id) == \E r \in set : r.record.peer = peer_id

\* HashSet::insert leaves the set as it is when it holds an equal value
HashSetInsert(set, value) ==
    IF HashSetContains(set, value.record.peer) THEN set ELSE set \cup {value}

\* clear() in place of remove(&peer_id)
HashSetClear(set, peer_id) == {}

HashSetRemove(set, peer_id) == {r \in set : r.record.peer # peer_id}

\* HashMap::get
ContainsKey(map, key) == key \in DOMAIN map

\* map.entry(key).or_insert_with(HashSet::new).insert(value)
EntryOrInsertWithInsert(map, key, value) ==
    IF ContainsKey(map, key)
    THEN [map EXCEPT ![key] = HashSetInsert(map[key], value)]
    ELSE (key :> HashSetInsert({}, value)) @@ map

\* registrations.iter().map(..).flatten().collect(): every namespace's set
AllRegistrations(map) == UNION {map[k] : k \in DOMAIN map}

\* ---------------------------------------------------------------- helpers
Pair(n, p) == {n, p}
\* the connections of the test set-up; the foreign peer stays reachable
Links == {Pair(n, "B") : n \in Clients}
Connected(n, p) == p = Foreign \/ Pair(n, p) \in connected


push_back(queue, n, action) == [queue EXCEPT ![n] = Append(@, action)]

\* observer of the outstanding calls of n toward p
PendingRequest(kind, ns) == [kind |-> kind, namespace |-> ns]
RecordSent(n, p, req) == [pending EXCEPT ![n][p] = Append(@, req)]
ResolveResponse(n, p) ==
    [pending EXCEPT ![n][p] = IF Len(@) > 0 THEN Tail(@) ELSE @]

\* ------------------------------------------------------------------- Init
Init ==
    /\ events = [n \in Nodes |-> <<>>]
    /\ registrations = [n \in Nodes |-> <<>>]
    /\ chan = [p \in Peers |-> [q \in Nodes |-> <<>>]]
    /\ connected = Links
    /\ pending = [n \in Nodes |-> [p \in Peers |-> <<>>]]
    /\ age = [n \in Nodes |-> [k \in Namespaces \X Nodes |-> -1]]
    /\ inputs = 0

\* one more input of the hosts, the network or the clock
Budget == inputs < MaxInputs /\ inputs' = inputs + 1

\* ------------------------------------------------------- Rendezvous calls
\* register that also enters the registration into the map of the caller
registerStoresLocally(n, ns, rendezvous_node, record) ==
    /\ Budget
    /\ events' = push_back(events, n,
           NotifyHandler(rendezvous_node, InputRegisterRequest(ns, None, record)))
    /\ registrations' = [registrations EXCEPT ![n] =
           EntryOrInsertWithInsert(@, ns, Registration(MsgRegister(ns, None, record)))]
    /\ pending' = RecordSent(n, rendezvous_node, PendingRequest("Register", Some(ns)))
    /\ UNCHANGED <<chan, connected, age>>

\* Rendezvous::register
register(n, ns, rendezvous_node, record) ==
    /\ Budget
    /\ events' = push_back(events, n,
           NotifyHandler(rendezvous_node, InputRegisterRequest(ns, None, record)))
    /\ pending' = RecordSent(n, rendezvous_node, PendingRequest("Register", Some(ns)))
    /\ UNCHANGED <<registrations, chan, connected, age>>

\* unregister with the validation of the namespace register is specified with
unregisterValidated(n, ns, rendezvous_node) ==
    /\ Budget
    /\ events' = IF ns = "" THEN events
                 ELSE push_back(events, n,
                          NotifyHandler(rendezvous_node, InputUnregisterRequest(ns)))
    /\ UNCHANGED <<registrations, chan, connected, pending, age>>

\* Rendezvous::unregister
unregister(n, ns, rendezvous_node) ==
    /\ Budget
    /\ events' = push_back(events, n,
           NotifyHandler(rendezvous_node, InputUnregisterRequest(ns)))
    /\ UNCHANGED <<registrations, chan, connected, pending, age>>

\* Rendezvous::discover
discover(n, ns, rendezvous_node) ==
    /\ Budget
    /\ events' = push_back(events, n,
           NotifyHandler(rendezvous_node, InputDiscoverRequest(ns)))
    /\ pending' = RecordSent(n, rendezvous_node, PendingRequest("Discover", ns))
    /\ UNCHANGED <<registrations, chan, connected, age>>

\* ----------------------------------------------------------- inject_event
\* the host hands node n the next message of the substream from peer_id
Inbound(n, peer_id) == Head(chan[peer_id][n])
HasInbound(n, peer_id, type) ==
    /\ Len(chan[peer_id][n]) > 0
    /\ Inbound(n, peer_id).type = type
Consume(n, peer_id) == [chan EXCEPT ![peer_id][n] = Tail(@)]

\* the Register arm with its response addressed to the local peer
RegisterEffectAnswersSelf(n, peer_id, new_reggo) ==
    LET ttl == effective_ttl(new_reggo) IN
    /\ registrations' = [registrations EXCEPT ![n] =
           EntryOrInsertWithInsert(@, new_reggo.namespace, Registration(new_reggo))]
    /\ events' = push_back(events, n,
           NotifyHandler(n,
               InputRegisterResponse(ttl, MsgSuccessfullyRegistered(ttl))))

\* Message::Register(new_reggo)
RegisterEffect(n, peer_id, new_reggo) ==
    LET ttl == effective_ttl(new_reggo) IN
    /\ registrations' = [registrations EXCEPT ![n] =
           EntryOrInsertWithInsert(@, new_reggo.namespace, Registration(new_reggo))]
    /\ events' = push_back(events, n,
           NotifyHandler(peer_id,
               InputRegisterResponse(ttl, MsgSuccessfullyRegistered(ttl))))

inject_event_Register(n, peer_id) ==
    /\ HasInbound(n, peer_id, "Register")
    /\ RegisterEffect(n, peer_id, Inbound(n, peer_id))
    /\ chan' = Consume(n, peer_id)
    /\ age' = [age EXCEPT
           ![n][<<Inbound(n, peer_id).namespace, Inbound(n, peer_id).record.peer>>] = 0]
    /\ UNCHANGED <<connected, pending, inputs>>

\* Message::SuccessfullyRegistered { ttl }
SuccessfullyRegisteredEffect(n, peer_id, ttl) ==
    events' = push_back(events, n,
        GenerateEvent(RegisteredWithRendezvousNode(peer_id, "", ttl)))

inject_event_SuccessfullyRegistered(n, peer_id) ==
    /\ HasInbound(n, peer_id, "SuccessfullyRegistered")
    /\ SuccessfullyRegisteredEffect(n, peer_id, Inbound(n, peer_id).ttl)
    /\ chan' = Consume(n, peer_id)
    /\ pending' = ResolveResponse(n, peer_id)
    /\ UNCHANGED <<registrations, connected, age, inputs>>

\* Message::FailedToRegister { error }
FailedToRegisterEffect(n, peer_id, error) ==
    events' = push_back(events, n,
        GenerateEvent(FailedToRegisterWithRendezvousNode(peer_id, "", error)))

inject_event_FailedToRegister(n, peer_id) ==
    /\ HasInbound(n, peer_id, "FailedToRegister")
    /\ FailedToRegisterEffect(n, peer_id, Inbound(n, peer_id).error)
    /\ chan' = Consume(n, peer_id)
    /\ pending' = ResolveResponse(n, peer_id)
    /\ UNCHANGED <<registrations, connected, age, inputs>>

\* Message::Unregister { namespace }
UnregisterEffect(n, peer_id, namespace) ==
    /\ registrations' = [registrations EXCEPT ![n] =
           IF ContainsKey(@, namespace) /\ HashSetContains(@[namespace], peer_id)
           THEN [@ EXCEPT ![namespace] = HashSetRemove(@, peer_id)]
           ELSE @]
    /\ events' = events

inject_event_Unregister(n, peer_id) ==
    /\ HasInbound(n, peer_id, "Unregister")
    /\ UnregisterEffect(n, peer_id, Inbound(n, peer_id).namespace)
    /\ chan' = Consume(n, peer_id)
    /\ UNCHANGED <<connected, pending, age, inputs>>

\* the arm answers with the empty list alone
DiscoverActionsOnlyEmpty(map, peer_id, namespace) ==
    <<NotifyHandler(peer_id, InputDiscoverResponse({}))>>

\* Message::Discover { namespace }: the actions the arm pushes, in order
DiscoverActions(map, peer_id, namespace) ==
    LET first ==
            IF IsSome(namespace)
            THEN IF ContainsKey(map, Unwrap(namespace))
                 THEN <<NotifyHandler(peer_id,
                            InputDiscoverResponse(map[Unwrap(namespace)]))>>
                 ELSE <<>>
            ELSE <<NotifyHandler(peer_id,
                       InputDiscoverResponse(AllRegistrations(map)))>>
    IN first \o <<NotifyHandler(peer_id, InputDiscoverResponse({}))>>

inject_event_Discover(n, peer_id) ==
    /\ HasInbound(n, peer_id, "Discover")
    /\ events' = [events EXCEPT ![n] =
           @ \o DiscoverActions(registrations[n], peer_id, Inbound(n, peer_id).namespace)]
    /\ chan' = Consume(n, peer_id)
    /\ UNCHANGED <<registrations, connected, pending, age, inputs>>

\* Message::DiscoverResponse { registrations }
DiscoverResponseEffect(n, peer_id, regs) ==
    events' = push_back(events, n, GenerateEvent(Discovered(peer_id, regs)))

inject_event_DiscoverResponse(n, peer_id) ==
    /\ HasInbound(n, peer_id, "DiscoverResponse")
    /\ DiscoverResponseEffect(n, peer_id, Inbound(n, peer_id).registrations)
    /\ chan' = Consume(n, peer_id)
    /\ pending' = ResolveResponse(n, peer_id)
    /\ UNCHANGED <<registrations, connected, age, inputs>>

\* Message::FailedToDiscover { error }
FailedToDiscoverEffect(n, peer_id, error) ==
    events' = push_back(events, n, GenerateEvent(FailedToDiscover(peer_id, error)))

inject_event_FailedToDiscover(n, peer_id) ==
    /\ HasInbound(n, peer_id, "FailedToDiscover")
    /\ FailedToDiscoverEffect(n, peer_id, Inbound(n, peer_id).error)
    /\ chan' = Consume(n, peer_id)
    /\ pending' = ResolveResponse(n, peer_id)
    /\ UNCHANGED <<registrations, connected, age, inputs>>

\* ------------------------------------------------- connection life cycle
\* NetworkBehaviour::inject_connected: the behaviour keeps its state
ConnectedEffect(n, peer_id) == UNCHANGED <<events, registrations>>

inject_connected(n, peer_id) ==
    /\ Pair(n, peer_id) \in Links
    /\ ~Connected(n, peer_id)
    /\ Budget
    /\ connected' = connected \cup {Pair(n, peer_id)}
    /\ ConnectedEffect(n, peer_id)
    /\ UNCHANGED <<chan, pending, age>>

\* NetworkBehaviour::inject_disconnected: the behaviour keeps its state
DisconnectedEffect(n, peer_id) == UNCHANGED <<events, registrations>>

\* the connection of n and peer_id closes and both swarms call
\* inject_disconnected: what was in flight on the connection is lost
inject_disconnected(n, peer_id) ==
    /\ Pair(n, peer_id) \in connected
    /\ Budget
    /\ connected' = connected \ {Pair(n, peer_id)}
    /\ DisconnectedEffect(n, peer_id)
    /\ DisconnectedEffect(peer_id, n)
    /\ chan' = [chan EXCEPT ![peer_id][n] = <<>>, ![n][peer_id] = <<>>]
    /\ UNCHANGED <<pending, age>>

\* ------------------------------------------------------------------- poll
\* pop_back in place of pop_front: the newest action is handed out first
pollNewestFirst(n) ==
    /\ Len(events[n]) > 0
    /\ LET event == events[n][Len(events[n])] IN
       /\ events' = [events EXCEPT ![n] = SubSeq(@, 1, Len(@) - 1)]
       /\ IF event.action = "NotifyHandler"
          THEN chan' = IF event.peer_id \in Nodes /\ Connected(n, event.peer_id)
                       THEN [chan EXCEPT ![n][event.peer_id] =
                                 Append(@, ToMessage(event.event))]
                       ELSE chan
          ELSE chan' = chan
    /\ UNCHANGED <<registrations, connected, pending, age, inputs>>

\* NetworkBehaviour::poll: pop_front; the swarm hands a NotifyHandler action
\* to the handler of a connected peer and a GenerateEvent action to the host
poll(n) ==
    /\ Len(events[n]) > 0
    /\ LET event == Head(events[n]) IN
       /\ events' = [events EXCEPT ![n] = Tail(@)]
       /\ IF event.action = "NotifyHandler"
          THEN chan' = IF event.peer_id \in Nodes /\ Connected(n, event.peer_id)
                       THEN [chan EXCEPT ![n][event.peer_id] =
                                 Append(@, ToMessage(event.event))]
                       ELSE chan
          ELSE chan' = chan
    /\ UNCHANGED <<registrations, connected, pending, age, inputs>>

\* ------------------------------------------------------------ environment
\* d seconds pass
Older(a, d) ==
    IF a < 0 THEN a ELSE IF a + d > MaxAge THEN MaxAge ELSE a + d

Tick(d) ==
    /\ Budget
    /\ age' = [n \in Nodes |-> [k \in Namespaces \X Nodes |-> Older(age[n][k], d)]]
    /\ age' # age
    /\ UNCHANGED <<events, registrations, chan, connected, pending>>

\* what a peer running another implementation sends
ForeignMessages ==
    {MsgFailedToRegister(e) : e \in ErrorCodes}
        \cup {MsgFailedToDiscover(e) : e \in ErrorCodes}

ForeignSend(n, m) ==
    /\ Budget
    /\ chan' = [chan EXCEPT ![Foreign][n] = Append(@, m)]
    /\ UNCHANGED <<events, registrations, connected, pending, age>>

\* ------------------------------------------------------------------- Next
Next ==
    \/ \E n \in Clients, ns \in Namespaces, t \in RendezvousPoints :
           \E r \in RecordsOf(n) : register(n, ns, t, r)
    \/ \E n \in Clients, ns \in Namespaces, t \in RendezvousPoints :
           unregister(n, ns, t)
    \/ \E n \in Clients, t \in RendezvousPoints,
          ns \in {None} \cup {Some(x) : x \in Namespaces} : discover(n, ns, t)
    \/ \E n \in Nodes, p \in Peers : inject_event_Register(n, p)
    \/ \E n \in Nodes, p \in Peers : inject_event_SuccessfullyRegistered(n, p)
    \/ \E n \in Nodes, p \in Peers : inject_event_FailedToRegister(n, p)
    \/ \E n \in Nodes, p \in Peers : inject_event_Unregister(n, p)
    \/ \E n \in Nodes, p \in Peers : inject_event_Discover(n, p)
    \/ \E n \in Nodes, p \in Peers : inject_event_DiscoverResponse(n, p)
    \/ \E n \in Nodes, p \in Peers : inject_event_FailedToDiscover(n, p)
    \/ \E n \in Nodes, p \in Nodes : inject_connected(n, p)
    \/ \E n \in Nodes, p \in Nodes : inject_disconnected(n, p)
    \/ \E n \in Nodes : poll(n)
    \/ \E d \in 1..MaxAge : Tick(d)
    \/ \E n \in Clients, m \in ForeignMessages : ForeignSend(n, m)

Spec == Init /\ [][Next]_vars

\* ------------------------------------------------------------- properties
\* what a step of node n pushed onto its queue
Pushed(n) == SubSeq(events'[n], Len(events[n]) + 1, Len(events'[n]))
Range(seq) == {seq[i] : i \in 1..Len(seq)}

\* node n handles a message of this type from peer_id in this step
Handles(n, peer_id, type) ==
    CASE type = "Register" -> inject_event_Register(n, peer_id)
      [] type = "SuccessfullyRegistered" -> inject_event_SuccessfullyRegistered(n, peer_id)
      [] type = "FailedToRegister" -> inject_event_FailedToRegister(n, peer_id)
      [] type = "Unregister" -> inject_event_Unregister(n, peer_id)
      [] type = "Discover" -> inject_event_Discover(n, peer_id)
      [] type = "DiscoverResponse" -> inject_event_DiscoverResponse(n, peer_id)
      [] type = "FailedToDiscover" -> inject_event_FailedToDiscover(n, peer_id)

\* C1: a node that handles a RegisterRequest of peer `from` holds a
\* registration of (namespace, from), pushes exactly one RegisterResponse::Ok
\* with the effective ttl for `from`, and emits PeerRegistered{from,
\* namespace}; a node that handles the Ok response emits Registered for the
\* rendezvous node that sent it.
C1_RegisterAccepted ==
    [][\A n \in Nodes, from \in Peers :
        /\ inject_event_Register(n, from) =>
              LET m == Inbound(n, from)
                  ttl == effective_ttl(m)
              IN /\ ContainsKey(registrations'[n], m.namespace)
                 /\ HashSetContains(registrations'[n][m.namespace], m.record.peer)
                 /\ Len(Pushed(n)) = 2
                 /\ Range(Pushed(n)) =
                        {NotifyHandler(from,
                             InputRegisterResponse(ttl, MsgSuccessfullyRegistered(ttl))),
                         GenerateEvent(PeerRegistered(from, m.namespace))}
        /\ inject_event_SuccessfullyRegistered(n, from) =>
              /\ Len(Pushed(n)) = 1
              /\ Pushed(n)[1].action = "GenerateEvent"
              /\ Pushed(n)[1].event.type = "RegisteredWithRendezvousNode"
              /\ Pushed(n)[1].event.rendezvous_node = from
              /\ Pushed(n)[1].event.ttl = Inbound(n, from).ttl
    ]_vars

\* the register calls of n toward p that are still unanswered, oldest first
OutstandingRegisters(n, p) == SelectSeq(pending[n][p], LAMBDA r : r.kind = "Register")

\* C2: the Registered or FailedToRegister event a node emits for a
\* RegisterResponse of peer P carries the namespace of the oldest outstanding
\* register call the node made to P.
C2_NamespaceKept ==
    [][\A n \in Nodes, P \in Peers :
        /\ Handles(n, P, "SuccessfullyRegistered") \/ Handles(n, P, "FailedToRegister")
        /\ Len(OutstandingRegisters(n, P)) > 0
        => /\ Len(Pushed(n)) = 1
           /\ Pushed(n)[1].action = "GenerateEvent"
           /\ Pushed(n)[1].event.type \in
                  {"RegisteredWithRendezvousNode", "FailedToRegisterWithRendezvousNode"}
           /\ Pushed(n)[1].event.rendezvous_node = P
           /\ Some(Pushed(n)[1].event.ns) = Head(OutstandingRegisters(n, P)).namespace
    ]_vars

\* the kind of call a result event resolves
ResolvesKind(type) ==
    IF type \in {"RegisteredWithRendezvousNode", "FailedToRegisterWithRendezvousNode"}
    THEN "Register" ELSE "Discover"

\* C3: the k-th response of a peer resolves the k-th outstanding call toward
\* that peer: the event a node emits for a response of peer p is a result of
\* the kind of the oldest outstanding call toward p, attributed to p.
C3_FifoCorrelation ==
    [][\A n \in Nodes, p \in Nodes, type \in {"SuccessfullyRegistered",
            "FailedToRegister", "DiscoverResponse", "FailedToDiscover"} :
        Handles(n, p, type) /\ Len(pending[n][p]) > 0
        => /\ Len(Pushed(n)) = 1
           /\ Pushed(n)[1].action = "GenerateEvent"
           /\ Pushed(n)[1].event.rendezvous_node = p
           /\ ResolvesKind(Pushed(n)[1].event.type) = Head(pending[n][p]).kind
    ]_vars

\* the registrations a store holds for (ns, peer)
EntriesOf(map, ns, peer) ==
    IF ContainsKey(map, ns) THEN {r \in map[ns] : r.record.peer = peer} ELSE {}

\* C4: the store holds at most one registration per (namespace, peer), and
\* once a node handled RegisterRequest(ns, p, r2) its entry for (ns, p) holds
\* r2's record.
C4_Uniqueness ==
    [][\A n \in Nodes, from \in Peers :
        inject_event_Register(n, from) =>
            LET m == Inbound(n, from) IN
            /\ \A ns \in Namespaces, p \in Nodes :
                   Cardinality(EntriesOf(registrations'[n], ns, p)) <= 1
            /\ \A r \in EntriesOf(registrations'[n], m.namespace, m.record.peer) :
                   r.record = m.record
            /\ EntriesOf(registrations'[n], m.namespace, m.record.peer) # {}
    ]_vars

\* the registrations the DiscoverResponses of a sequence of actions list
Listed(actions) ==
    UNION {a.event.registrations :
              a \in {b \in Range(actions) :
                        b.action = "NotifyHandler" /\ b.event.type = "DiscoverResponse"}}

\* the registrations of node n a DiscoverRequest for namespace asks for
Asked(n, namespace) ==
    IF IsSome(namespace)
    THEN IF ContainsKey(registrations[n], Unwrap(namespace))
         THEN registrations[n][Unwrap(namespace)] ELSE {}
    ELSE AllRegistrations(registrations[n])

SecondsSinceAccepted(n, r) == age[n][<<r.namespace, r.record.peer>>]

\* C5: a registration with ttl T accepted at t0 is listed by a discover at
\* t0 + T - 1 and no DiscoverResponse lists a registration whose ttl has
\* elapsed (one accepted more than T seconds ago).
C5_Expiry ==
    [][\A n \in Nodes, from \in Peers :
        inject_event_Discover(n, from) =>
            /\ \A r \in Asked(n, Inbound(n, from).namespace) :
                   SecondsSinceAccepted(n, r) < r.ttl => r \in Listed(Pushed(n))
            /\ \A r \in Listed(Pushed(n)) : SecondsSinceAccepted(n, r) <= r.ttl
    ]_vars

\* C6: a node that handles a DiscoverRequest of a peer pushes exactly one
\* DiscoverResponse for that peer.
C6_OneDiscoverResponse ==
    [][\A n \in Nodes, from \in Peers :
        inject_event_Discover(n, from) =>
            /\ Len(Pushed(n)) = 1
            /\ Pushed(n)[1].action = "NotifyHandler"
            /\ Pushed(n)[1].peer_id = from
            /\ Pushed(n)[1].event.type = "DiscoverResponse"
    ]_vars

\* C7: every register or discover call resolves with exactly one result
\* event: a node emits a result event for a response of peer p only for a
\* call toward p that is still unanswered, so that none gets two.
C7_ExactlyOneResult ==
    [][\A n \in Nodes, p \in Nodes, type \in {"SuccessfullyRegistered",
            "FailedToRegister", "DiscoverResponse", "FailedToDiscover"} :
        Handles(n, p, type) /\ Len(Pushed(n)) > 0 => Len(pending[n][p]) > 0
    ]_vars

\* the failure event that resolves an outstanding call toward p
FailureOf(req, p) ==
    IF req.kind = "Register"
    THEN FailedToRegisterWithRendezvousNode(p, Unwrap(req.namespace), "Unavailable")
    ELSE FailedToDiscover(p, "Unavailable")

IsFailure(a) ==
    /\ a.action = "GenerateEvent"
    /\ a.event.type \in {"FailedToRegisterWithRendezvousNode", "FailedToDiscover"}

\* C8: when peer P disconnects while k calls toward P are outstanding, the
\* node emits exactly k failure events with error Unavailable, one per call.
C8_DisconnectCompleteness ==
    [][\A n \in Nodes, P \in Nodes :
        inject_disconnected(n, P) =>
            SelectSeq(Pushed(n), IsFailure) =
                [i \in 1..Len(pending[n][P]) |->
                    GenerateEvent(FailureOf(pending[n][P][i], P))]
    ]_vars

IsPeerUnregistered(a) ==
    a.action = "GenerateEvent" /\ a.event.type = "PeerUnregistered"

\* C9: when a peer disconnects from a node, the node's store holds no
\* registration of that peer any more, in any namespace, and the node emits
\* one PeerUnregistered per namespace the peer was registered under.
C9_DisconnectUnregisters ==
    [][\A n \in Nodes, p \in Nodes :
        inject_disconnected(n, p) =>
            /\ \A ns \in Namespaces : EntriesOf(registrations'[n], ns, p) = {}
            /\ Range(SelectSeq(Pushed(n), IsPeerUnregistered)) =
                   {GenerateEvent(PeerUnregistered(p, ns)) :
                       ns \in {x \in Namespaces : EntriesOf(registrations[n], x, p) # {}}}
    ]_vars

\* node n handles the next message of one of its substreams
inject_event(n) ==
    \E p \in Peers :
        \/ inject_event_Register(n, p)
        \/ inject_event_SuccessfullyRegistered(n, p)
        \/ inject_event_FailedToRegister(n, p)
        \/ inject_event_Unregister(n, p)
        \/ inject_event_Discover(n, p)
        \/ inject_event_DiscoverResponse(n, p)
        \/ inject_event_FailedToDiscover(n, p)

\* the swarm of every node keeps polling the behaviour and keeps handing it
\* the messages that arrived
Fairness == \A n \in Nodes : WF_vars(poll(n)) /\ WF_vars(inject_event(n))

\* the scenario of tests/rendezvous.rs: the registration swarm A registers
\* and unregisters with B, the discovery swarm C discovers at B
ScenarioNext ==
    \/ \E ns \in Namespaces, r \in RecordsOf("A") : register("A", ns, "B", r)
    \/ \E ns \in Namespaces : unregister("A", ns, "B")
    \/ \E ns \in {None} \cup {Some(x) : x \in Namespaces} : discover("C", ns, "B")
    \/ \E n \in Nodes, p \in Nodes : inject_event_Register(n, p)
    \/ \E n \in Nodes, p \in Nodes : inject_event_SuccessfullyRegistered(n, p)
    \/ \E n \in Nodes, p \in Nodes : inject_event_Unregister(n, p)
    \/ \E n \in Nodes, p \in Nodes : inject_event_Discover(n, p)
    \/ \E n \in Nodes, p \in Nodes : inject_event_DiscoverResponse(n, p)
    \/ \E n \in Nodes, p \in Nodes : inject_connected(n, p)
    \/ \E n \in Nodes, p \in Nodes : inject_disconnected(n, p)
    \/ \E n \in Nodes : poll(n)

LiveSpec == Init /\ [][ScenarioNext]_vars /\ Fairness

\* node n has a DiscoverResponse that lists r queued for peer c
ResponseQueued(n, c, r) ==
    \E a \in Range(events[n]) :
        /\ a.action = "NotifyHandler"
        /\ a.peer_id = c
        /\ a.event.type = "DiscoverResponse"
        /\ r \in a.event.registrations

\* node c has emitted Discovered{n, registrations} with r among them
DiscoveredQueued(c, n, r) ==
    \E a \in Range(events[c]) :
        /\ a.action = "GenerateEvent"
        /\ a.event.type = "Discovered"
        /\ a.event.rendezvous_node = n
        /\ r \in a.event.ns

\* the registrations peer p can have in a store
RegistrationsOf(p) ==
    {Registration(MsgRegister(ns, None, rec)) : ns \in Namespaces, rec \in RecordsOf(p)}

\* C10: when B handles C's DiscoverRequest for Some(ns) while it holds A's
\* registration under ns, it pushes a DiscoverResponse for C that lists that
\* registration; and once such a response is queued at B, C emits
\* Discovered{B, registrations} with A's registration among them, unless the
\* connection of B and C closes.
C10_RegisterThenDiscover ==
    /\ [][\A ns \in Namespaces :
            /\ inject_event_Discover("B", "C")
            /\ Inbound("B", "C").namespace = Some(ns)
            => \A r \in EntriesOf(registrations["B"], ns, "A") :
                   \E a \in Range(Pushed("B")) :
                       /\ a.action = "NotifyHandler"
                       /\ a.peer_id = "C"
                       /\ a.event.type = "DiscoverResponse"
                       /\ r \in a.event.registrations
       ]_vars
    /\ \A r \in RegistrationsOf("A") :
           ResponseQueued("B", "C", r)
               ~> (DiscoveredQueued("C", "B", r) \/ ~Connected("C", "B"))

\* C10 witness: C holds a Discovered event of B that lists a registration of A
C10_Witness == \E r \in RegistrationsOf("A") : DiscoveredQueued("C", "B", r)

\* a RegisterRequest that validation rejects: its namespace is empty
InvalidRegister(m) == m.namespace = ""

IsRegisterRequest(a) ==
    a.action = "NotifyHandler" /\ a.event.type = "RegisterRequest"

\* C11: a register call with an empty namespace enqueues nothing and leaves
\* the state of the behaviour as it is: no queue ever holds a RegisterRequest
\* with an empty namespace and none is ever handed to a handler.
C11_InvalidRegisterRejected ==
    /\ \A n \in Nodes : \A a \in Range(events[n]) :
           IsRegisterRequest(a) => ~InvalidRegister(a.event)
    /\ \A n \in Nodes, p \in Nodes : \A m \in Range(chan[n][p]) :
           m.type = "Register" => ~InvalidRegister(m)

IsPrefix(s, t) == Len(s) <= Len(t) /\ SubSeq(t, 1, Len(s)) = s

\* C12: poll hands out the queued actions in the order they were pushed,
\* each once: a poll removes the oldest action of the queue and hands that one
\* to the handler or the host, every other step only appends to the queue;
\* poll has an action to hand out exactly when the queue is not empty; and a
\* queue that holds actions is drained when the swarm keeps polling.
C12_PollFifo ==
    /\ [][\A n \in Nodes :
            /\ poll(n) =>
                  LET event == Head(events[n]) IN
                  /\ events'[n] = Tail(events[n])
                  /\ \A p \in Nodes \ {n} : events'[p] = events[p]
                  /\ (event.action = "NotifyHandler" /\ event.peer_id \in Nodes
                          /\ Connected(n, event.peer_id))
                      => chan'[n][event.peer_id] =
                             Append(chan[n][event.peer_id], ToMessage(event.event))
            /\ events'[n] # events[n] /\ ~IsPrefix(events[n], events'[n]) => poll(n)
       ]_vars
    /\ [](\A n \in Nodes : ENABLED poll(n) <=> events[n] # <<>>)
    /\ \A n \in Nodes : (events[n] # <<>>) ~> (events[n] = <<>>)

\* C12 witness: B has handed out the first of several queued actions: a
\* message of B is in flight while B's queue still holds an action
C12_Witness ==
    /\ Len(events["B"]) > 0
    /\ \E p \in Nodes : Len(chan["B"][p]) > 0

\* C13: an unregister call pushes exactly one UnregisterRequest{namespace}
\* addressed to its target, whatever the namespace, changes nothing else of
\* the behaviour and records no outstanding call; no outstanding call is ever
\* an unregister call, so that no response is matched against one.
C13_UnregisterFireAndForget ==
    /\ [][\A n \in Nodes, ns \in Namespaces, target \in Nodes :
            unregister(n, ns, target) =>
                /\ Pushed(n) = <<NotifyHandler(target, InputUnregisterRequest(ns))>>
                /\ IsPrefix(events[n], events'[n])
                /\ \A p \in Nodes \ {n} : events'[p] = events[p]
                /\ UNCHANGED <<registrations, pending>>
       ]_vars
    /\ [](\A n \in Nodes, p \in Peers : \A r \in Range(pending[n][p]) :
             r.kind \in {"Register", "Discover"})

\* C13 witness: the UnregisterRequest of an unregister call with the empty
\* namespace is queued at A for B and A awaits nothing from B
C13_Witness ==
    /\ NotifyHandler("B", InputUnregisterRequest("")) \in Range(events["A"])
    /\ pending["A"]["B"] = <<>>

ResultEvents ==
    {"RegisteredWithRendezvousNode", "FailedToRegisterWithRendezvousNode",
     "Discovered", "FailedToDiscover"}

\* C14: a node that handles a response of a peer toward which it has no
\* outstanding call pushes no Registered, FailedToRegister, Discovered or
\* FailedToDiscover event, and the outstanding calls toward every peer stay as
\* they are.
C14_UnexpectedResponse ==
    [][\A n \in Nodes, p \in Peers, type \in {"SuccessfullyRegistered",
            "FailedToRegister", "DiscoverResponse", "FailedToDiscover"} :
        Handles(n, p, type) /\ Len(pending[n][p]) = 0
        => /\ \A a \in Range(Pushed(n)) :
                  a.action = "GenerateEvent" => a.event.type \notin ResultEvents
           /\ pending' = pending
    ]_vars

\* C15: a node that handles UnregisterRequest{namespace} of peer `from` holds
\* no registration of (namespace, from) afterwards; it pushes
\* PeerUnregistered{from, namespace} when it held one and nothing otherwise,
\* so that no message goes back to `from`.
C15_UnregisterHandled ==
    [][\A n \in Nodes, from \in Peers :
        inject_event_Unregister(n, from) =>
            LET ns == Inbound(n, from).namespace IN
            /\ EntriesOf(registrations'[n], ns, from) = {}
            /\ Pushed(n) =
                   IF EntriesOf(registrations[n], ns, from) # {}
                   THEN <<GenerateEvent(PeerUnregistered(from, ns))>>
                   ELSE <<>>
    ]_vars

\* the DiscoverResponses among a sequence of actions
DiscoverResponses(actions) ==
    {a \in Range(actions) :
        a.action = "NotifyHandler" /\ a.event.type = "DiscoverResponse"}

\* C16: the DiscoverResponse a node pushes for DiscoverRequest{namespace}
\* carries exactly the non-expired registrations the node holds under that
\* namespace, and those of all namespaces when the namespace is absent: every
\* one whose ttl has not elapsed and none whose ttl has elapsed or that is
\* not held under the namespace asked for.
C16_DiscoverExact ==
    [][\A n \in Nodes, from \in Peers :
        inject_event_Discover(n, from) =>
            LET asked == Asked(n, Inbound(n, from).namespace) IN
            /\ DiscoverResponses(Pushed(n)) # {}
            /\ \A a \in DiscoverResponses(Pushed(n)) :
                   /\ {r \in asked : SecondsSinceAccepted(n, r) < r.ttl}
                          \subseteq a.event.registrations
                   /\ a.event.registrations
                          \subseteq {r \in asked : SecondsSinceAccepted(n, r) <= r.ttl}
    ]_vars

\* C17: a node that handles a RegisterRequest that fails validation (its
\* namespace is empty) pushes RegisterResponse::Err{code} for the sender and
\* emits DeclinedRegisterRequest for that peer and namespace, and nothing
\* else; its registrations stay as they are.
C17_InvalidRegisterDeclined ==
    [][\A n \in Nodes, from \in Peers :
        inject_event_Register(n, from) /\ InvalidRegister(Inbound(n, from)) =>
            LET m == Inbound(n, from) IN
            /\ registrations'[n] = registrations[n]
            /\ Len(Pushed(n)) = 2
            /\ \E a \in Range(Pushed(n)) :
                   /\ a.action = "NotifyHandler"
                   /\ a.peer_id = from
                   /\ a.event.type = "RegisterResponse"
                   /\ a.event.message.type = "FailedToRegister"
            /\ GenerateEvent(DeclinedRegisterRequest(from, m.namespace))
                   \in Range(Pushed(n))
    ]_vars

\* C18: a node that handles UnregisterRequest{namespace} of peer p changes at
\* most its entry of (namespace, p): the registrations it holds of every
\* other peer under that namespace, and all under every other namespace,
\* stay as they are.
C18_UnregisterFrame ==
    [][\A n \in Nodes, p \in Peers :
        inject_event_Unregister(n, p) =>
            \A ns \in Namespaces, q \in Peers :
                <<ns, q>> # <<Inbound(n, p).namespace, p>>
                => EntriesOf(registrations'[n], ns, q) = EntriesOf(registrations[n], ns, q)
    ]_vars

\* C18 witness: B accepted registrations of A and of C under one namespace,
\* A's is removed again and C's is still held
C18_Witness ==
    \E ns \in Namespaces :
        /\ age["B"][<<ns, "A">>] >= 0
        /\ EntriesOf(registrations["B"], ns, "A") = {}
        /\ EntriesOf(registrations["B"], ns, "C") # {}

\* a step of the client role of node n, of its queue or of its connections: a
\* call, a poll, a peer that connects, a response or a DiscoverRequest handled
ClientStep(n) ==
    \/ \E ns \in Namespaces, t \in Nodes, r \in RecordsOf(n) : register(n, ns, t, r)
    \/ \E ns \in Namespaces, t \in Nodes : unregister(n, ns, t)
    \/ \E ns \in {None} \cup {Some(x) : x \in Namespaces}, t \in Nodes :
           discover(n, ns, t)
    \/ poll(n)
    \/ \E p \in Nodes : inject_connected(n, p) \/ inject_connected(p, n)
    \/ \E p \in Peers :
           \/ inject_event_SuccessfullyRegistered(n, p)
           \/ inject_event_FailedToRegister(n, p)
           \/ inject_event_DiscoverResponse(n, p)
           \/ inject_event_FailedToDiscover(n, p)
           \/ inject_event_Discover(n, p)

\* C19: the calls register, unregister and discover, poll, a peer that
\* connects, every response handled and a DiscoverRequest handled leave the
\* registrations of the node as they are; the registrations of a node change
\* only when it handles a RegisterRequest or an UnregisterRequest, when a peer
\* disconnects from it or when time passes.
C19_ClientFrame ==
    [][\A n \in Nodes :
        /\ ClientStep(n) => registrations' = registrations
        /\ registrations'[n] # registrations[n] =>
               \/ \E p \in Peers :
                      inject_event_Register(n, p) \/ inject_event_Unregister(n, p)
               \/ \E p \in Nodes : inject_disconnected(n, p) \/ inject_disconnected(p, n)
               \/ \E d \in 1..MaxAge : Tick(d)
    ]_vars

\* C19 witness: A registered with B and handled the response, B holds the
\* registration and the map of A is empty
C19_Witness ==
    /\ \E a \in Range(events["A"]) :
           a.action = "GenerateEvent" /\ a.event.type = "RegisteredWithRendezvousNode"
    /\ registrations["A"] = <<>>
    /\ AllRegistrations(registrations["B"]) # {}

MessageTypes ==
    {"Register", "SuccessfullyRegistered", "FailedToRegister", "Unregister",
     "Discover", "DiscoverResponse", "FailedToDiscover"}

\* every message among the actions is addressed to peer p
AddressedTo(actions, p) ==
    \A a \in Range(actions) : a.action = "NotifyHandler" => a.peer_id = p

\* C20: every message a node pushes while it handles a message of peer p is
\* addressed to p; the request a register, unregister or discover call pushes
\* is addressed to the target of the call; and poll hands a message to the
\* substream of the peer it is addressed to and to no other.
C20_Addressing ==
    [][\A n \in Nodes :
        /\ \A p \in Peers, type \in MessageTypes :
               Handles(n, p, type) => AddressedTo(Pushed(n), p)
        /\ \A ns \in Namespaces, t \in Nodes, r \in RecordsOf(n) :
               register(n, ns, t, r) =>
                   Len(Pushed(n)) = 1 /\ IsRegisterRequest(Pushed(n)[1])
                       /\ AddressedTo(Pushed(n), t)
        /\ \A ns \in Namespaces, t \in Nodes :
               unregister(n, ns, t) => Len(Pushed(n)) = 1 /\ AddressedTo(Pushed(n), t)
        /\ \A ns \in {None} \cup {Some(x) : x \in Namespaces}, t \in Nodes :
               discover(n, ns, t) => Len(Pushed(n)) = 1 /\ AddressedTo(Pushed(n), t)
        /\ poll(n) =>
               \A a \in Peers, b \in Nodes :
                   chan'[a][b] # chan[a][b] =>
                       /\ a = n
                       /\ Head(events[n]).action = "NotifyHandler"
                       /\ b = Head(events[n]).peer_id
    ]_vars

\* C20 witness: B handled a request of A and one of C, and its queue holds a
\* response addressed to A and a response addressed to C
C20_Witness ==
    \E a, b \in Range(events["B"]) :
        /\ a.action = "NotifyHandler" /\ a.peer_id = "A"
        /\ b.action = "NotifyHandler" /\ b.peer_id = "C"

====
